---- MODULE Spec2Model ----
(***************************************************************************)
(* Model of packages/vite/src/node/server/hmr.ts: the HMR update walk      *)
(* (propagateUpdate / invalidateChain), the handlers handleHMRUpdate and   *)
(* handlePrunedModules, and the lexer lexAcceptedHmrDeps.                  *)
(***************************************************************************)
EXTENDS Integers, Sequences, FiniteSets, TLC

VARIABLES
    \* ---- ModuleNode fields (moduleGraph) ----
    importers,          \* node -> importers in Set iteration (insertion) order
    acceptedHmrDeps,    \* node -> set of nodes
    isSelfAccepting,    \* node -> BOOLEAN
    url,                \* node -> url
    file,               \* node -> file path
    type,               \* node -> "js" | "css"
    lastHMRTimestamp,   \* node -> Nat (0: never stamped)
    transformResult,    \* node -> "cached" | "null"
    \* ---- one propagateUpdate walk, frame by frame ----
    wnode,              \* start node of the walk ("none" before the call)
    wstack,             \* call stack of propagateUpdate, innermost frame last
    boundaries,         \* the boundaries Set, in insertion order
    ret,                \* value just returned by a frame: "none" | "true" | "false"
    \* ---- server ----
    plugins,            \* config.plugins: TRUE where the plugin has handleHotUpdate
    inv,                \* slot -> a call of handleHMRUpdate / handlePrunedModules
    sent,               \* what ws.send was given, in order, tagged with the slot
    now,                \* Date.now()
    \* ---- one call of lexAcceptedHmrDeps ----
    call,               \* how the text handed to the lexer was put together
    code,               \* the source text, a sequence of characters
    start,              \* the offset lexing starts at
    i,                  \* the loop index (offsets count from 0)
    state,              \* LexerState
    prevState,
    currentDep,         \* the characters buffered since the opening quote
    urls,               \* the Set the caller passed in
    lexOut,             \* "run" | "true" | "false" (returned) | "error" (thrown)
    errPos              \* err.pos of the thrown error, -1 if none

gvars == <<importers, acceptedHmrDeps, isSelfAccepting, url, file, type>>
nvars == <<lastHMRTimestamp, transformResult>>
wvars == <<wnode, wstack, boundaries, ret>>
svars == <<plugins, inv, sent>>
lvars == <<call, code, start, i, state, prevState, currentDep, urls, lexOut, errPos>>
vars == <<gvars, nvars, wvars, svars, now, lvars>>

\* ------------------------------------------------------------------ bounds
MaxEdges == 3       \* importer edges in the graph one walk is run on
MaxServedEdges == 2 \* importer edges in the graph the handlers are run on
MaxBatch == 2       \* nodes in a list a hook returns or a set handed to prune
MaxLen == 3         \* characters of a text tried character by character
MaxEntries == 2     \* entries of an array literal

\* ------------------------------------------------------------------ graph
Nodes == {"A", "B", "C"}

Range(s) == {s[k] : k \in 1..Len(s)}

\* Array.prototype.includes on a chain
ChainIncludes(chain, n) == \E k \in 1..Len(chain) : chain[k] = n

\* the orders in which a Set of at most n nodes can have been filled
RECURSIVE OrderedSets(_)
OrderedSets(n) ==
    IF n = 0 THEN {<<>>}
    ELSE LET prev == OrderedSets(n - 1)
         IN prev \cup {Append(s, x) : s \in {t \in prev : Len(t) = n - 1},
                                      x \in Nodes}

NoRepeat(s) == \A j, k \in 1..Len(s) : j # k => s[j] # s[k]

ImporterLists == {s \in OrderedSets(Cardinality(Nodes)) : NoRepeat(s)}

RECURSIVE SumLen(_, _)
SumLen(f, S) ==
    IF S = {} THEN 0
    ELSE LET x == CHOOSE y \in S : TRUE
         IN Len(f[x]) + SumLen(f, S \ {x})

\* importer edges: a imports b  <=>  a \in Range(importers[b])
Imports(imp, a, b) == ChainIncludes(imp[b], a)

\* ---- paths: a file path is the sequence of its characters ----
RootDir == <<"/", "r", "o", "o", "t">>                                  \* config.root
ClientDir == <<"/", "v", "i", "t", "e", "/", "c", "l", "i", "e", "n", "t">>  \* CLIENT_DIR
EnvSuffix == <<".", "e", "n", "v">>
HtmlSuffix == <<".", "h", "t", "m", "l">>
Js == <<".", "j", "s">>
Vue == <<".", "v", "u", "e">>
\* the file named n with the extension e in the directory d
Path(d, n, e) == d \o <<"/">> \o n \o e
ConfigPath == Path(RootDir, <<"c", "f", "g">>, Js)
FileA == Path(RootDir, <<"a">>, Vue)
FileC == Path(RootDir, <<"c">>, Js)

\* the nodes of the graph: A and B are two nodes of one file
Urls == [n \in Nodes |->
           CASE n = "A" -> "/a.vue" [] n = "B" -> "/a.vue?type=style" [] OTHER -> "/c.js"]
NodeFiles == [n \in Nodes |-> IF n = "C" THEN FileC ELSE FileA]
Types == [n \in Nodes |-> IF n = "B" THEN "css" ELSE "js"]

\* a module graph with at most e importer edges, no node stamped yet
GraphWithin(e) ==
    /\ importers \in {f \in [Nodes -> ImporterLists] : SumLen(f, Nodes) <= e}
    /\ acceptedHmrDeps \in
         {f \in [Nodes -> SUBSET Nodes] :
            \A a \in Nodes : \A b \in f[a] : Imports(importers, a, b)}
    /\ isSelfAccepting \in [Nodes -> BOOLEAN]
    /\ url = Urls
    /\ file = NodeFiles
    /\ type = Types
    /\ lastHMRTimestamp = [n \in Nodes |-> 0]
    /\ transformResult = [n \in Nodes |-> "cached"]

\* a graph without edges
GraphIdle ==
    /\ importers = [n \in Nodes |-> <<>>]
    /\ acceptedHmrDeps = [n \in Nodes |-> {}]
    /\ isSelfAccepting = [n \in Nodes |-> FALSE]
    /\ url = Urls
    /\ file = NodeFiles
    /\ type = Types
    /\ lastHMRTimestamp = [n \in Nodes |-> 0]
    /\ transformResult = [n \in Nodes |-> "cached"]

\* no call being served
Slots == {1, 2}
IdleCall == [op |-> "none", pc |-> "idle"]
ServerIdle ==
    /\ plugins = <<>>
    /\ inv = [k \in Slots |-> IdleCall]
    /\ sent = <<>>

\* no lexer call
LexIdle ==
    /\ call = [arg |-> [kind |-> "none"], urls |-> {}]
    /\ code = <<>>
    /\ start = 0
    /\ i = 0
    /\ state = "inCall"
    /\ prevState = "inCall"
    /\ currentDep = <<>>
    /\ urls = {}
    /\ lexOut = "idle"
    /\ errPos = -1

\* ---------------------------------------------------------- invalidateChain
invalidateChain(chain, timestamp) ==
    /\ lastHMRTimestamp' =
         [n \in Nodes |-> IF ChainIncludes(chain, n) THEN timestamp
                          ELSE lastHMRTimestamp[n]]
    /\ transformResult' =
         [n \in Nodes |-> IF ChainIncludes(chain, n) THEN "null"
                          ELSE transformResult[n]]

\* ------------------------------------------- propagateUpdate, frame by frame
\* A frame is [node, chain, idx]: idx importers of node have been handled by
\* the for-of loop of this call.
Top == wstack[Len(wstack)]
Pop == SubSeq(wstack, 1, Len(wstack) - 1)
Running == wstack # <<>> /\ ret = "none"
InLoop == Running /\ ~isSelfAccepting[Top.node] /\ importers[Top.node] # <<>>
AtImporter == InLoop /\ Top.idx < Len(importers[Top.node])
Importer == importers[Top.node][Top.idx + 1]
SubChain == Append(Top.chain, Importer)
Advance == [wstack EXCEPT ![Len(wstack)].idx = @ + 1]

\* propagateUpdate(node, timestamp, boundaries) with the default chain [node]
WalkCall(n) ==
    /\ wnode = "none"
    /\ wnode' = n
    /\ wstack' = <<[node |-> n, chain |-> <<n>>, idx |-> 0]>>
    /\ UNCHANGED <<gvars, nvars, boundaries, ret, svars, now, lvars>>

\* WalkSelfAccept with the wrong return value
WalkSelfAccept_ReturnsTrue ==
    /\ Running
    /\ isSelfAccepting[Top.node]
    /\ boundaries' = Append(boundaries, [boundary |-> Top.node, acceptedVia |-> Top.node])
    /\ invalidateChain(Top.chain, now)
    /\ wstack' = Pop
    /\ ret' = "true"
    /\ UNCHANGED <<gvars, wnode, svars, now, lvars>>

\* if (node.isSelfAccepting) { boundaries.add; invalidateChain; return false }
WalkSelfAccept ==
    /\ Running
    /\ isSelfAccepting[Top.node]
    /\ boundaries' = Append(boundaries, [boundary |-> Top.node, acceptedVia |-> Top.node])
    /\ invalidateChain(Top.chain, now)
    /\ wstack' = Pop
    /\ ret' = "false"
    /\ UNCHANGED <<gvars, wnode, svars, now, lvars>>

\* WalkDeadEnd that invalidates the chain before it returns
WalkDeadEnd_Invalidates ==
    /\ Running
    /\ ~isSelfAccepting[Top.node]
    /\ importers[Top.node] = <<>>
    /\ invalidateChain(Top.chain, now)
    /\ wstack' = Pop
    /\ ret' = "true"
    /\ UNCHANGED <<gvars, wnode, boundaries, svars, now, lvars>>

\* if (!node.importers.size) return true
WalkDeadEnd ==
    /\ Running
    /\ ~isSelfAccepting[Top.node]
    /\ importers[Top.node] = <<>>
    /\ wstack' = Pop
    /\ ret' = "true"
    /\ UNCHANGED <<gvars, nvars, wnode, boundaries, svars, now, lvars>>

\* WalkAccepted that invalidates the chain without the accepting importer
WalkAccepted_StampsChainOnly ==
    /\ AtImporter
    /\ Top.node \in acceptedHmrDeps[Importer]
    /\ boundaries' = Append(boundaries, [boundary |-> Importer, acceptedVia |-> Top.node])
    /\ invalidateChain(Top.chain, now)
    /\ wstack' = Advance
    /\ UNCHANGED <<gvars, wnode, ret, svars, now, lvars>>

\* WalkAccepted without its continue: the walk goes on into the importer
WalkAccepted_NoContinue ==
    /\ AtImporter
    /\ Top.node \in acceptedHmrDeps[Importer]
    /\ boundaries' = Append(boundaries, [boundary |-> Importer, acceptedVia |-> Top.node])
    /\ invalidateChain(SubChain, now)
    /\ wstack' = IF ChainIncludes(Top.chain, Importer) THEN Advance
                  ELSE Append(wstack, [node |-> Importer, chain |-> SubChain, idx |-> 0])
    /\ UNCHANGED <<gvars, wnode, ret, svars, now, lvars>>

\* if (importer.acceptedHmrDeps.has(node)) { add; invalidateChain(subChain); continue }
WalkAccepted ==
    /\ AtImporter
    /\ Top.node \in acceptedHmrDeps[Importer]
    /\ boundaries' = Append(boundaries, [boundary |-> Importer, acceptedVia |-> Top.node])
    /\ invalidateChain(SubChain, now)
    /\ wstack' = Advance
    /\ UNCHANGED <<gvars, wnode, ret, svars, now, lvars>>

\* WalkRecurse without the currentChain.includes guard
WalkRecurse_NoGuard ==
    /\ AtImporter
    /\ Top.node \notin acceptedHmrDeps[Importer]
    /\ wstack' = Append(wstack, [node |-> Importer, chain |-> SubChain, idx |-> 0])
    /\ UNCHANGED <<gvars, nvars, wnode, boundaries, ret, svars, now, lvars>>

\* if (!currentChain.includes(importer)) propagateUpdate(importer, ..., subChain)
WalkRecurse ==
    /\ AtImporter
    /\ Top.node \notin acceptedHmrDeps[Importer]
    /\ ~ChainIncludes(Top.chain, Importer)
    /\ wstack' = Append(wstack, [node |-> Importer, chain |-> SubChain, idx |-> 0])
    /\ UNCHANGED <<gvars, nvars, wnode, boundaries, ret, svars, now, lvars>>

\* importer already on the chain: next importer
WalkSkip ==
    /\ AtImporter
    /\ Top.node \notin acceptedHmrDeps[Importer]
    /\ ChainIncludes(Top.chain, Importer)
    /\ wstack' = Advance
    /\ UNCHANGED <<gvars, nvars, wnode, boundaries, ret, svars, now, lvars>>

\* the loop ran out of importers: return false
WalkLoopEnd ==
    /\ InLoop
    /\ Top.idx = Len(importers[Top.node])
    /\ wstack' = Pop
    /\ ret' = "false"
    /\ UNCHANGED <<gvars, nvars, wnode, boundaries, svars, now, lvars>>

\* if (propagateUpdate(...)) return true
WalkReturnDead ==
    /\ wstack # <<>>
    /\ ret = "true"
    /\ wstack' = Pop
    /\ UNCHANGED <<gvars, nvars, wnode, boundaries, ret, svars, now, lvars>>

\* the recursive call returned false: next importer
WalkReturnOk ==
    /\ wstack # <<>>
    /\ ret = "false"
    /\ wstack' = Advance
    /\ ret' = "none"
    /\ UNCHANGED <<gvars, nvars, wnode, boundaries, svars, now, lvars>>

WalkStep ==
    \/ WalkSelfAccept
    \/ WalkDeadEnd
    \/ WalkAccepted
    \/ WalkRecurse
    \/ WalkSkip
    \/ WalkLoopEnd
    \/ WalkReturnDead
    \/ WalkReturnOk

\* ------------------------------------------------------ lexAcceptedHmrDeps
SQ == "'"
DQ == "\""
BT == "backtick"    \* the backtick character
Quotes == {SQ, DQ, BT}
\* /\s/ on the characters of the model's alphabet
IsSpace(c) == c \in {" ", "\n"}

\* the string state a quote character opens
StringState(q) ==
    CASE q = SQ -> "inSingleQuoteString"
      [] q = DQ -> "inDoubleQuoteString"
      [] q = BT -> "inTemplateString"

\* code.charAt(k): "" past the end
charAt(k) == IF k < Len(code) THEN code[k + 1] ELSE ""
char == charAt(i)

Lexing == lexOut = "run" /\ i < Len(code)
Outside == state \in {"inCall", "inArray"}

\* error with the offset counted from the start offset
error_FromStart(pos) ==
    /\ lexOut' = "error"
    /\ errPos' = pos - start
    /\ UNCHANGED <<call, code, start, i, state, prevState, currentDep, urls>>

\* error(pos): throws, with err.pos = pos
error(pos) ==
    /\ lexOut' = "error"
    /\ errPos' = pos
    /\ UNCHANGED <<call, code, start, i, state, prevState, currentDep, urls>>

\* return v
LexReturn(v) ==
    /\ lexOut' = v
    /\ UNCHANGED <<call, code, start, i, state, prevState, currentDep, urls, errPos>>

LexFrame == UNCHANGED <<gvars, nvars, wvars, svars, now>>

\* an opening quote: prevState = state; state = the string state
LexOpenQuote ==
    /\ Lexing /\ Outside
    /\ char \in Quotes
    /\ prevState' = state
    /\ state' = StringState(char)
    /\ i' = i + 1
    /\ UNCHANGED <<call, code, start, currentDep, urls, lexOut, errPos>>
    /\ LexFrame

\* /\s/.test(char): continue
LexSpace ==
    /\ Lexing /\ Outside
    /\ IsSpace(char)
    /\ i' = i + 1
    /\ UNCHANGED <<call, code, start, state, prevState, currentDep, urls, lexOut, errPos>>
    /\ LexFrame

\* inCall, '[': state = inArray
LexOpenArray ==
    /\ Lexing /\ state = "inCall"
    /\ char = "["
    /\ state' = "inArray"
    /\ i' = i + 1
    /\ UNCHANGED <<call, code, start, prevState, currentDep, urls, lexOut, errPos>>
    /\ LexFrame

\* LexSelfAccepting that takes ')' for the end of an empty argument list only
LexSelfAccepting_Strict ==
    /\ Lexing /\ state = "inCall"
    /\ char \notin Quotes /\ ~IsSpace(char) /\ char # "["
    /\ LexReturn(IF char = ")" /\ i > start THEN "false" ELSE "true")
    /\ LexFrame

\* inCall, any other character: return true
LexSelfAccepting ==
    /\ Lexing /\ state = "inCall"
    /\ char \notin Quotes /\ ~IsSpace(char) /\ char # "["
    /\ LexReturn("true")
    /\ LexFrame

\* inArray, ']': return false
LexCloseArray ==
    /\ Lexing /\ state = "inArray"
    /\ char = "]"
    /\ LexReturn("false")
    /\ LexFrame

\* inArray, ',': continue
LexComma ==
    /\ Lexing /\ state = "inArray"
    /\ char = ","
    /\ i' = i + 1
    /\ UNCHANGED <<call, code, start, state, prevState, currentDep, urls, lexOut, errPos>>
    /\ LexFrame

\* inArray, any other character: error(i)
LexArrayError ==
    /\ Lexing /\ state = "inArray"
    /\ char \notin Quotes /\ ~IsSpace(char) /\ char \notin {"]", ","}
    /\ error(i)
    /\ LexFrame

\* a closing quote with the buffer reset: urls.add(currentDep); currentDep = ''
CommitAndReset ==
    /\ urls' = urls \cup {currentDep}
    /\ currentDep' = <<>>
    /\ state' = prevState
    /\ i' = i + 1
    /\ UNCHANGED <<call, code, start, prevState, lexOut, errPos>>

\* the closing quote of the double-quote case: urls.add(currentDep), no reset
CommitNoReset ==
    /\ urls' = urls \cup {currentDep}
    /\ state' = prevState
    /\ i' = i + 1
    /\ UNCHANGED <<call, code, start, prevState, currentDep, lexOut, errPos>>

\* currentDep += char
Buffer ==
    /\ currentDep' = Append(currentDep, char)
    /\ i' = i + 1
    /\ UNCHANGED <<call, code, start, state, prevState, urls, lexOut, errPos>>

LexSingleClose ==
    /\ Lexing /\ state = "inSingleQuoteString"
    /\ char = SQ
    /\ CommitAndReset
    /\ LexFrame

LexSingleChar ==
    /\ Lexing /\ state = "inSingleQuoteString"
    /\ char # SQ
    /\ Buffer
    /\ LexFrame

LexDoubleClose ==
    /\ Lexing /\ state = "inDoubleQuoteString"
    /\ char = DQ
    /\ CommitNoReset
    /\ LexFrame

LexDoubleChar ==
    /\ Lexing /\ state = "inDoubleQuoteString"
    /\ char # DQ
    /\ Buffer
    /\ LexFrame

LexTemplateClose ==
    /\ Lexing /\ state = "inTemplateString"
    /\ char = BT
    /\ CommitAndReset
    /\ LexFrame

\* char === '$' && code.charAt(i + 1) === '{': error(i)
LexInterpolation ==
    /\ Lexing /\ state = "inTemplateString"
    /\ char # BT
    /\ char = "$" /\ charAt(i + 1) = "{"
    /\ error(i)
    /\ LexFrame

LexTemplateChar ==
    /\ Lexing /\ state = "inTemplateString"
    /\ char # BT
    /\ ~(char = "$" /\ charAt(i + 1) = "{")
    /\ Buffer
    /\ LexFrame

\* the loop ran to code.length: return false
LexEnd ==
    /\ lexOut = "run"
    /\ i >= Len(code)
    /\ LexReturn("false")
    /\ LexFrame

\* ---- the texts handed to the lexer ----
Alphabet == {SQ, DQ, BT, " ", "\n", "[", "]", ",", "$", "{", "a", ")"}

RECURSIVE Strings(_)
Strings(n) ==
    IF n = 0 THEN {<<>>}
    ELSE LET prev == Strings(n - 1)
         IN prev \cup {Append(t, c) : t \in {u \in prev : Len(u) = n - 1},
                                      c \in Alphabet}

\* what stands between the quotes of a literal
TextPool == {<<>>, <<"a">>, <<"a", "b">>, <<"$">>, <<SQ>>, <<DQ>>, <<BT>>}
Literals == {l \in [q : Quotes, text : TextPool] : l.q \notin Range(l.text)}
Literal(l) == <<l.q>> \o l.text \o <<l.q>>

RECURSIVE LiteralLists(_)
LiteralLists(n) ==
    IF n = 0 THEN {<<>>}
    ELSE LET prev == LiteralLists(n - 1)
         IN prev \cup {Append(t, l) : t \in {u \in prev : Len(u) = n - 1},
                                      l \in Literals}

\* the entries of an array, each after sep, the first after lead
RECURSIVE Entries(_, _, _)
Entries(es, lead, sep) ==
    IF es = <<>> THEN <<>>
    ELSE lead \o Literal(Head(es)) \o Entries(Tail(es), sep, sep)

\* the rest of the call after its first argument
Rests == {<<")">>, <<",", "a", ")">>, <<" ", ",", " ", "a", ")">>}

\* raw: any text; literal: one string literal and the rest of the call; array:
\* an array of string literals; interpolated: an array whose last entry is a
\* template string with an interpolation
LexArgs ==
    [kind : {"raw"}, text : Strings(MaxLen)]
    \cup [kind : {"literal"}, lead : {<<>>, <<" ">>}, lit : Literals, rest : Rests]
    \cup [kind : {"array"}, lead : {<<>>, <<"\n">>}, entries : LiteralLists(MaxEntries),
          sep : {<<",">>, <<",", " ">>}]
    \cup [kind : {"interpolated"}, entries : LiteralLists(MaxEntries - 1),
          text : {<<>>, <<"a">>}]

\* the text of a call's arguments
Render(c) ==
    CASE c.kind = "raw" -> c.text
      [] c.kind = "literal" -> c.lead \o Literal(c.lit) \o c.rest
      [] c.kind = "array" ->
           c.lead \o <<"[">> \o Entries(c.entries, <<>>, c.sep) \o <<"]", ")">>
      [] c.kind = "interpolated" ->
           <<"[">> \o Entries(c.entries, <<>>, <<>>)
                  \o (IF c.entries = <<>> THEN <<>> ELSE <<",">>)
                  \o <<BT>> \o c.text \o <<"$", "{", "a", "}", BT, "]", ")">>

\* what precedes the start offset
Prefixes == {<<>>, <<"a", "(">>}

\* the Set the caller passes in
UrlSets == {{}, {<<"a">>}}

\* lexAcceptedHmrDeps(code, start, urls), before the first character is read
InitLex ==
    /\ \E arg \in LexArgs, pre \in Prefixes, u \in UrlSets :
         /\ call = [arg |-> arg, urls |-> u]
         /\ code = pre \o Render(arg)
         /\ start = Len(pre)
         /\ i = Len(pre)
         /\ urls = u
    /\ state = "inCall"
    /\ prevState = "inCall"
    /\ currentDep = <<>>
    /\ lexOut = "run"
    /\ errPos = -1
    /\ GraphIdle
    /\ wnode = "none"
    /\ wstack = <<>>
    /\ boundaries = <<>>
    /\ ret = "none"
    /\ ServerIdle
    /\ now = 1

NextLex ==
    \/ LexOpenQuote
    \/ LexSpace
    \/ LexOpenArray
    \/ LexSelfAccepting
    \/ LexCloseArray
    \/ LexComma
    \/ LexArrayError
    \/ LexSingleClose
    \/ LexSingleChar
    \/ LexDoubleClose
    \/ LexDoubleChar
    \/ LexTemplateClose
    \/ LexInterpolation
    \/ LexTemplateChar
    \/ LexEnd

SpecLex == InitLex /\ [][NextLex]_vars

\* ------------------------------------------------------------ the server
\* ---------------------------- propagateUpdate as a function of the graph
\* acc is what one walk has done so far: hasDeadEnd, the boundaries added (in
\* insertion order) and the nodes invalidateChain has written.
NoWalk == [hasDeadEnd |-> FALSE, boundaries |-> <<>>, invalidated |-> {}]

AddBoundary(acc, b, via, chain) ==
    [acc EXCEPT !.boundaries = Append(@, [boundary |-> b, acceptedVia |-> via]),
                !.invalidated = @ \cup Range(chain)]

RECURSIVE propagateUpdate(_, _, _)
RECURSIVE ForImporters(_, _, _, _)

propagateUpdate(node, currentChain, acc) ==
    IF isSelfAccepting[node]
    THEN AddBoundary(acc, node, node, currentChain)
    ELSE IF importers[node] = <<>>
    THEN [acc EXCEPT !.hasDeadEnd = TRUE]
    ELSE ForImporters(node, currentChain, 1, acc)

\* for (const importer of node.importers), from the k-th importer on
ForImporters(node, currentChain, k, acc) ==
    IF k > Len(importers[node]) THEN acc
    ELSE LET importer == importers[node][k]
             subChain == Append(currentChain, importer)
         IN IF node \in acceptedHmrDeps[importer]
            THEN ForImporters(node, currentChain, k + 1,
                              AddBoundary(acc, importer, node, subChain))
            ELSE IF ~ChainIncludes(currentChain, importer)
            THEN LET r == propagateUpdate(importer, subChain, acc)
                 IN IF r.hasDeadEnd THEN r
                    ELSE ForImporters(node, currentChain, k + 1, r)
            ELSE ForImporters(node, currentChain, k + 1, acc)

\* ------------------------------------------------------- handleHMRUpdate
\* String.prototype.endsWith, String.prototype.startsWith
endsWith(f, suffix) ==
    Len(f) >= Len(suffix) /\ SubSeq(f, Len(f) - Len(suffix) + 1, Len(f)) = suffix
startsWith(f, d) ==
    Len(f) >= Len(d) /\ SubSeq(f, 1, Len(d)) = d

\* (in the recursive operators below a parameter is bound to its value once,
\* as the one element of a singleton set, before the body reads it)

\* the segments of a path between its '/' characters, empty ones dropped
RECURSIVE Segments(_)
Segments(path) ==
    CHOOSE r \in
      {IF s = <<>> THEN <<>>
       ELSE IF Head(s) = "/" THEN Segments(Tail(s))
       ELSE LET n == IF \E k \in 1..Len(s) : s[k] = "/"
                     THEN (CHOOSE k \in 1..Len(s) :
                             s[k] = "/" /\ \A j \in 1..(k - 1) : s[j] # "/") - 1
                     ELSE Len(s)
            IN <<SubSeq(s, 1, n)>> \o Segments(SubSeq(s, n + 1, Len(s)))
       : s \in {path}} : TRUE

\* path.resolve on the segments of an absolute path: '.' is dropped and '..'
\* takes the segment before it away
RECURSIVE Resolve(_, _)
Resolve(segments, resolved) ==
    CHOOSE r \in
      {IF segs = <<>> THEN acc
       ELSE IF Head(segs) = <<".">> THEN Resolve(Tail(segs), acc)
       ELSE IF Head(segs) = <<".", ".">>
       THEN Resolve(Tail(segs), SubSeq(acc, 1, Len(acc) - 1))
       ELSE Resolve(Tail(segs), Append(acc, Head(segs)))
       : segs \in {segments}, acc \in {resolved}} : TRUE

\* the segments joined by '/'
RECURSIVE Join(_)
Join(segments) ==
    CHOOSE r \in
      {IF segs = <<>> THEN <<>>
       ELSE IF Len(segs) = 1 THEN segs[1]
       ELSE segs[1] \o <<"/">> \o Join(Tail(segs))
       : segs \in {segments}} : TRUE

\* the number of leading segments from and to share
RECURSIVE Common(_, _)
Common(from, to) ==
    CHOOSE r \in
      {IF a = <<>> \/ b = <<>> \/ Head(a) # Head(b) THEN 0
       ELSE 1 + Common(Tail(a), Tail(b))
       : a \in {from}, b \in {to}} : TRUE

\* path.relative(from, to) for absolute posix paths: one '..' for every
\* segment of from below the common directory, then the rest of to
relative(from, to) ==
    CHOOSE r \in
      {LET c == Common(a, b)
       IN Join([j \in 1..(Len(a) - c) |-> <<".", ".">>] \o SubSeq(b, c + 1, Len(b)))
       : a \in {Resolve(Segments(from), <<>>)},
         b \in {Resolve(Segments(to), <<>>)}} : TRUE

\* slash(path): every backslash becomes '/'
slash(s) == [j \in 1..Len(s) |-> IF s[j] = "\\" THEN "/" ELSE s[j]]

\* '/' + slash(path.relative(config.root, file))
RelativePath(f) == <<"/">> \o slash(relative(RootDir, f))

\* moduleGraph.getModulesByFile: the file's nodes in insertion order, <<>> if none
NodeOrder == <<"A", "B", "C">>
getModulesByFile(f) == SelectSeq(NodeOrder, LAMBDA n : file[n] = f)

\* `${boundary.type}-update`
UpdateType(t) == IF t = "css" THEN "css-update" ELSE "js-update"

\* the record pushed for one boundary
UpdateRecord(b, timestamp) ==
    [type |-> UpdateType(type[b.boundary]),
     timestamp |-> timestamp,
     path |-> url[b.boundary],
     accpetedPath |-> url[b.acceptedVia]]

UpdatesOf(bs, timestamp) == [j \in 1..Len(bs) |-> UpdateRecord(bs[j], timestamp)]

\* for (const mod of filteredMods), from the k-th node on: the updates so far,
\* the nodes invalidated so far, and whether a walk reported a dead end
RECURSIVE WalkBatch(_, _, _, _)
WalkBatch(mods, k, timestamp, acc) ==
    IF k > Len(mods) THEN acc
    ELSE LET r == propagateUpdate(mods[k], <<mods[k]>>, NoWalk)
             inval == acc.invalidated \cup r.invalidated
         IN IF r.hasDeadEnd
            THEN [hasDeadEnd |-> TRUE, updates |-> acc.updates, invalidated |-> inval]
            ELSE WalkBatch(mods, k + 1, timestamp,
                           [hasDeadEnd |-> FALSE,
                            updates |-> acc.updates \o UpdatesOf(r.boundaries, timestamp),
                            invalidated |-> inval])

NoBatch == [hasDeadEnd |-> FALSE, updates |-> <<>>, invalidated |-> {}]

\* BatchMessage that sends the updates found before the dead end
BatchMessage_KeepsUpdates(r) ==
    IF r.hasDeadEnd /\ r.updates = <<>> THEN [type |-> "full-reload"]
    ELSE [type |-> "update", updates |-> r.updates]

\* what the walks of one batch send
BatchMessage(r) ==
    IF r.hasDeadEnd THEN [type |-> "full-reload"]
    ELSE [type |-> "update", updates |-> r.updates]

Send(k, msg) == sent' = Append(sent, [by |-> k, msg |-> msg])

\* Date.now() returns t: the clock never runs backwards
DateNow(t) == t >= now /\ now' = t

\* SendUpdates that stamps the nodes with the clock value read before the call
\* went on, while the records carry the timestamp
SendUpdates_StaleStamp(k, mods, timestamp) ==
    LET r == WalkBatch(mods, 1, timestamp, NoBatch)
    IN /\ DateNow(timestamp)
       /\ lastHMRTimestamp' =
            [n \in Nodes |-> IF n \in r.invalidated THEN now
                             ELSE lastHMRTimestamp[n]]
       /\ transformResult' =
            [n \in Nodes |-> IF n \in r.invalidated THEN "null"
                             ELSE transformResult[n]]
       /\ Send(k, BatchMessage(r))

\* const timestamp = Date.now(), the walks of the batch, ws.send
SendUpdates(k, mods, timestamp) ==
    LET r == WalkBatch(mods, 1, timestamp, NoBatch)
    IN /\ DateNow(timestamp)
       /\ lastHMRTimestamp' =
            [n \in Nodes |-> IF n \in r.invalidated THEN timestamp
                             ELSE lastHMRTimestamp[n]]
       /\ transformResult' =
            [n \in Nodes |-> IF n \in r.invalidated THEN "null"
                             ELSE transformResult[n]]
       /\ Send(k, BatchMessage(r))

\* the first plugin from p on that has a handleHotUpdate hook, 0 if none
NextHook(p) ==
    IF \E q \in p..Len(plugins) : plugins[q]
    THEN CHOOSE q \in p..Len(plugins) :
           plugins[q] /\ \A q2 \in p..(q - 1) : ~plugins[q2]
    ELSE 0

\* the plugin loop from plugin p on with the batch mods: it suspends at the
\* next hook, or runs on to the walks and the send
RunFrom(k, f, mods, p, t) ==
    LET q == NextHook(p)
    IN IF q = 0
       THEN /\ inv' = [inv EXCEPT ![k] = [op |-> "hmr", pc |-> "done",
                                           filteredMods |-> mods]]
            /\ SendUpdates(k, mods, t)
       ELSE /\ inv' = [inv EXCEPT ![k] = [op |-> "hmr", pc |-> "await", file |-> f,
                                           filteredMods |-> mods, plugin |-> q]]
            /\ t = now
            /\ UNCHANGED <<nvars, sent, now>>

Return(k, f) == inv' = [inv EXCEPT ![k] = [op |-> "hmr", pc |-> "done", file |-> f]]

\* file === config.configPath, or file.endsWith('.env'): return
HmrIgnored(k, f) ==
    /\ inv[k].pc = "idle"
    /\ f = ConfigPath \/ endsWith(f, EnvSuffix)
    /\ Return(k, f)
    /\ UNCHANGED <<gvars, nvars, wvars, plugins, sent, now, lvars>>

\* HmrFullReload placed after the module graph lookup
HmrFullReload_AfterLookup(k, f) ==
    /\ inv[k].pc = "idle"
    /\ ~(f = ConfigPath \/ endsWith(f, EnvSuffix))
    /\ endsWith(f, HtmlSuffix) \/ startsWith(f, ClientDir)
    /\ getModulesByFile(f) = <<>>
    /\ Send(k, [type |-> "full-reload", path |-> RelativePath(f)])
    /\ Return(k, f)
    /\ UNCHANGED <<gvars, nvars, wvars, plugins, now, lvars>>

\* file.endsWith('.html') || file.startsWith(CLIENT_DIR): full-reload with a path
HmrFullReload(k, f) ==
    /\ inv[k].pc = "idle"
    /\ ~(f = ConfigPath \/ endsWith(f, EnvSuffix))
    /\ endsWith(f, HtmlSuffix) \/ startsWith(f, ClientDir)
    /\ Send(k, [type |-> "full-reload", path |-> RelativePath(f)])
    /\ Return(k, f)
    /\ UNCHANGED <<gvars, nvars, wvars, plugins, now, lvars>>

\* if (!mods) return
HmrNoModule(k, f) ==
    /\ inv[k].pc = "idle"
    /\ ~(f = ConfigPath \/ endsWith(f, EnvSuffix))
    /\ ~(endsWith(f, HtmlSuffix) \/ startsWith(f, ClientDir))
    /\ getModulesByFile(f) = <<>>
    /\ Return(k, f)
    /\ UNCHANGED <<gvars, nvars, wvars, plugins, sent, now, lvars>>

\* the file has nodes: the plugin loop, up to its first await or to the send
HmrModules(k, f, t) ==
    /\ inv[k].pc = "idle"
    /\ ~(f = ConfigPath \/ endsWith(f, EnvSuffix))
    /\ ~(endsWith(f, HtmlSuffix) \/ startsWith(f, ClientDir))
    /\ getModulesByFile(f) # <<>>
    /\ RunFrom(k, f, getModulesByFile(f), 1, t)
    /\ UNCHANGED <<gvars, wvars, plugins, lvars>>

\* (await plugin.handleHotUpdate(...)) || filteredMods, with the hook's result
\* r (not truthy: undefined or null; an array, also an empty one, is truthy),
\* then the rest of the loop
HmrHookResult(k, r, t) ==
    /\ inv[k].pc = "await"
    /\ RunFrom(k, inv[k].file,
               IF r.truthy THEN r.mods ELSE inv[k].filteredMods,
               inv[k].plugin + 1, t)
    /\ UNCHANGED <<gvars, wvars, plugins, lvars>>

\* ---------------------------------------------------- handlePrunedModules
\* handlePrunedModules that lists the urls in node order, not in the Set's order
handlePrunedModules_Sorted(k, mods, t) ==
    /\ inv[k].pc = "idle"
    /\ DateNow(t)
    /\ inv' = [inv EXCEPT ![k] = [op |-> "prune", pc |-> "done", mods |-> mods]]
    /\ lastHMRTimestamp' =
         [n \in Nodes |-> IF ChainIncludes(mods, n) THEN t ELSE lastHMRTimestamp[n]]
    /\ LET sorted == SelectSeq(NodeOrder, LAMBDA n : ChainIncludes(mods, n))
       IN Send(k, [type |-> "prune", paths |-> [j \in 1..Len(sorted) |-> url[sorted[j]]]])
    /\ UNCHANGED <<gvars, transformResult, wvars, plugins, lvars>>

\* handlePrunedModules that also takes the pruned nodes out of the importers
handlePrunedModules_DropsEdges(k, mods, t) ==
    /\ inv[k].pc = "idle"
    /\ DateNow(t)
    /\ inv' = [inv EXCEPT ![k] = [op |-> "prune", pc |-> "done", mods |-> mods]]
    /\ lastHMRTimestamp' =
         [n \in Nodes |-> IF ChainIncludes(mods, n) THEN t ELSE lastHMRTimestamp[n]]
    /\ Send(k, [type |-> "prune", paths |-> [j \in 1..Len(mods) |-> url[mods[j]]]])
    /\ importers' =
         [n \in Nodes |-> SelectSeq(importers[n], LAMBDA m : ~ChainIncludes(mods, m))]
    /\ UNCHANGED <<acceptedHmrDeps, isSelfAccepting, url, file, type, transformResult,
                   wvars, plugins, lvars>>

handlePrunedModules(k, mods, t) ==
    /\ inv[k].pc = "idle"
    /\ DateNow(t)
    /\ inv' = [inv EXCEPT ![k] = [op |-> "prune", pc |-> "done", mods |-> mods]]
    /\ lastHMRTimestamp' =
         [n \in Nodes |-> IF ChainIncludes(mods, n) THEN t ELSE lastHMRTimestamp[n]]
    /\ Send(k, [type |-> "prune", paths |-> [j \in 1..Len(mods) |-> url[mods[j]]]])
    /\ UNCHANGED <<gvars, transformResult, wvars, plugins, lvars>>

\* the changed files the watcher reports
HmrFiles ==
    {ConfigPath, Path(RootDir, <<>>, EnvSuffix), Path(RootDir, <<"i">>, HtmlSuffix),
     Path(ClientDir, <<"c">>, Js), Path(ClientDir, <<>>, EnvSuffix),
     FileA, FileC, Path(RootDir, <<"x">>, Js),
     \* below the client directory, and beside it with its name as a prefix
     Path(ClientDir \o <<"/", "s">>, <<"x">>, Js),
     Path(ClientDir \o <<"2">>, <<"x">>, Js),
     ClientDir \o Js,
     \* html below the root, with a backslash in its name, reached through '..'
     Path(RootDir \o <<"/", "s">>, <<"i">>, HtmlSuffix),
     Path(RootDir, <<"a", "\\", "b">>, HtmlSuffix),
     Path(RootDir \o <<"/", ".", ".", "/", "v">>, <<"x">>, HtmlSuffix),
     \* outside the root and outside the client directory
     Path(<<"/", "v">>, <<"x">>, Js)}

\* a list of nodes a plugin hook may resolve to, or a set handed to prune
NodeLists == OrderedSets(MaxBatch)
HookResults ==
    {[truthy |-> FALSE, mods |-> <<>>]} \cup {[truthy |-> TRUE, mods |-> l] : l \in NodeLists}
PrunedSets == {s \in NodeLists : NoRepeat(s)}

PluginConfigs == {<<FALSE>>, <<FALSE, TRUE>>}

\* the values Date.now() takes: timestamps are only ever compared for equality
Times == {1, 2}

\* no module of the served graph imports itself
NoSelfImport == \A n \in Nodes : ~Imports(importers, n, n)

Init ==
    /\ GraphWithin(MaxServedEdges)
    /\ NoSelfImport
    /\ wnode = "none"
    /\ wstack = <<>>
    /\ boundaries = <<>>
    /\ ret = "none"
    /\ plugins \in PluginConfigs
    /\ inv = [k \in Slots |-> IdleCall]
    /\ sent = <<>>
    /\ now = 1
    /\ LexIdle

\* one call at a time is served by slot 1
Next ==
    \/ \E f \in HmrFiles : HmrIgnored(1, f)
    \/ \E f \in HmrFiles : HmrFullReload(1, f)
    \/ \E f \in HmrFiles : HmrNoModule(1, f)
    \/ \E f \in HmrFiles, t \in Times : HmrModules(1, f, t)
    \/ \E r \in HookResults, t \in Times : HmrHookResult(1, r, t)
    \/ \E mods \in PrunedSets, t \in Times : handlePrunedModules(1, mods, t)

Spec == Init /\ [][Next]_vars

WalkDone == wnode # "none" /\ wstack = <<>> /\ ret # "none"

InitWalk ==
    /\ GraphWithin(MaxEdges)
    /\ wnode = "none"
    /\ wstack = <<>>
    /\ boundaries = <<>>
    /\ ret = "none"
    /\ ServerIdle
    /\ now = 1
    /\ LexIdle

NextWalk ==
    \/ \E n \in Nodes : WalkCall(n)
    \/ WalkStep

\* the walk is synchronous code: once called it runs to its return
SpecWalk == InitWalk /\ [][NextWalk]_vars /\ WF_vars(WalkStep)

\* =================================================================== claims
\* ---- the walk (SpecWalk) ----
Recorded(b, via) ==
    \E j \in 1..Len(boundaries) : boundaries[j] = [boundary |-> b, acceptedVia |-> via]

\* The frame-by-frame walk and the function propagateUpdate agree on the return
\* value, the boundaries and the nodes written (a check of the model itself).
WalkAgreesWithFunction ==
    WalkDone =>
      LET r == propagateUpdate(wnode, <<wnode>>, NoWalk)
      IN /\ r.hasDeadEnd = (ret = "true")
         /\ r.boundaries = boundaries
         /\ \A n \in Nodes :
              /\ (n \in r.invalidated) = (lastHMRTimestamp[n] = now)
              /\ (n \in r.invalidated) = (transformResult[n] = "null")

\* C2: propagateUpdate on a self-accepting start node with an empty boundary
\* set returns false with the boundaries exactly {(node, node)}, whatever the
\* node's importers: no call for an importer is ever made.
C2_SelfAcceptingStart ==
    (wnode # "none" /\ isSelfAccepting[wnode]) =>
      /\ \A k \in 1..Len(wstack) : wstack[k].node = wnode /\ k = 1
      /\ ret # "true"
      /\ WalkDone =>
           /\ ret = "false"
           /\ boundaries = <<[boundary |-> wnode, acceptedVia |-> wnode]>>

\* C2 witness: a finished walk from a self-accepting node that has importers
C2_Witness ==
    /\ WalkDone
    /\ isSelfAccepting[wnode]
    /\ Len(importers[wnode]) = 2
    /\ ret = "false"

\* the k-th importer of n is walked into and its walk reports a dead end
DeadBranch(n, k) ==
    LET imp == importers[n][k]
    IN /\ n \notin acceptedHmrDeps[imp]
       /\ imp # n
       /\ propagateUpdate(imp, <<n, imp>>, NoWalk).hasDeadEnd

\* C3 as claimed: whenever A imports B, B is not self-accepting and A accepts B,
\* the walk started at B records the boundary (A, B).
C3_AsClaimed ==
    WalkDone =>
      \A a \in Nodes :
        (/\ ~isSelfAccepting[wnode]
         /\ Imports(importers, a, wnode)
         /\ wnode \in acceptedHmrDeps[a]) => Recorded(a, wnode)

\* C3 (amended): if A imports B, B is not self-accepting and A accepts B, the
\* walk started at B records the boundary (A, B) unless the walk into an
\* importer that precedes A in B.importers reported a dead end (the walk then
\* returns true at once); and no call of propagateUpdate is ever made for an
\* importer through an edge that importer accepts.
C3_AcceptedImporter ==
    /\ \A k \in 2..Len(wstack) : wstack[k - 1].node \notin acceptedHmrDeps[wstack[k].node]
    /\ WalkDone =>
         \A j \in 1..Len(importers[wnode]) :
           (/\ ~isSelfAccepting[wnode]
            /\ wnode \in acceptedHmrDeps[importers[wnode][j]]) =>
             \/ Recorded(importers[wnode][j], wnode)
             \/ ret = "true" /\ \E k \in 1..(j - 1) : DeadBranch(wnode, k)

\* C3 witness: B = wnode has the importers [A, X]; A accepts B and is itself
\* self-accepting with an importer; the walk has recorded (A, B) and is done
C3_Witness ==
    /\ WalkDone
    /\ ~isSelfAccepting[wnode]
    /\ Len(importers[wnode]) = 2
    /\ LET a == importers[wnode][1]
       IN /\ wnode \in acceptedHmrDeps[a]
          /\ isSelfAccepting[a]
          /\ importers[a] # <<>>
          /\ Recorded(a, wnode)
          /\ ~Recorded(a, a)

\* C4: propagateUpdate on a node that is not self-accepting and has no
\* importers returns true, records no boundary and stamps no node.
C4_NoImporters ==
    (wnode # "none" /\ ~isSelfAccepting[wnode] /\ importers[wnode] = <<>>) =>
      /\ ret # "false"
      /\ WalkDone => ret = "true"
      /\ boundaries = <<>>
      /\ \A n \in Nodes : lastHMRTimestamp[n] = 0 /\ transformResult[n] = "cached"

\* C4 witness: the walk from such a node has returned true
C4_Witness ==
    /\ WalkDone
    /\ ~isSelfAccepting[wnode]
    /\ importers[wnode] = <<>>
    /\ ret = "true"

\* C5: propagateUpdate terminates on every graph, cyclic ones included: every
\* call is made with a chain of pairwise distinct nodes (an importer already
\* on the chain is never walked into), and every walk that was called returns.
C5_Terminates ==
    /\ [][\A k \in 1..Len(wstack') : NoRepeat(wstack'[k].chain)]_vars
    /\ (wnode # "none") ~> WalkDone

\* C5 witness: the cycle A imported by B imported by C imported by A, nothing
\* accepted: the walk from A has returned
C5_Witness ==
    /\ WalkDone
    /\ wnode = "A"
    /\ importers = [n \in Nodes |->
                      CASE n = "A" -> <<"B">> [] n = "B" -> <<"C">> [] OTHER -> <<"A">>]
    /\ \A n \in Nodes : ~isSelfAccepting[n] /\ acceptedHmrDeps[n] = {}

\* ---- the handlers (Spec) ----
\* the messages slot k's call has sent, in order
MsgsBy(k) ==
    LET mine == SelectSeq(sent, LAMBDA m : m.by = k)
    IN [j \in 1..Len(mine) |-> mine[j].msg]

\* slot k's call of handleHMRUpdate has run its walks and returned
Walked(k) ==
    inv[k].op = "hmr" /\ inv[k].pc = "done" /\ "filteredMods" \in DOMAIN inv[k]

\* the walk from node n reports a dead end
DeadEnd(n) == propagateUpdate(n, <<n>>, NoWalk).hasDeadEnd

\* C1: if the walk of any node of the final batch reports a dead end, the call
\* of handleHMRUpdate sends exactly one message, a full-reload without a path,
\* and no update message, also when earlier nodes of the batch had boundaries.
C1_DeadEndFullReload ==
    \A k \in Slots :
      (Walked(k) /\ \E j \in 1..Len(inv[k].filteredMods) : DeadEnd(inv[k].filteredMods[j]))
        => MsgsBy(k) = <<[type |-> "full-reload"]>>

\* C1 witness: a batch of two nodes, the first with a boundary of its own, the
\* second a dead end; one bare full-reload was sent
C1_Witness ==
    /\ Walked(1)
    /\ Len(inv[1].filteredMods) = 2
    /\ ~DeadEnd(inv[1].filteredMods[1])
    /\ propagateUpdate(inv[1].filteredMods[1], <<inv[1].filteredMods[1]>>, NoWalk).boundaries # <<>>
    /\ DeadEnd(inv[1].filteredMods[2])
    /\ MsgsBy(1) = <<[type |-> "full-reload"]>>

\* C10: handlePrunedModules stamps every node of the set with one and the same
\* timestamp, then sends exactly one prune message listing the nodes' urls in
\* the set's iteration order; it writes no importers, acceptedHmrDeps or
\* transformResult and no node outside the set.
C10_Prune ==
    [][\A k \in Slots :
         (inv[k].pc = "idle" /\ inv'[k].pc = "done" /\ inv'[k].op = "prune") =>
           LET mods == inv'[k].mods
           IN /\ \E t \in Times :
                   \A n \in Nodes :
                     lastHMRTimestamp'[n] =
                       IF ChainIncludes(mods, n) THEN t ELSE lastHMRTimestamp[n]
              /\ sent' = Append(sent,
                                [by |-> k,
                                 msg |-> [type |-> "prune",
                                          paths |-> [j \in 1..Len(mods) |-> url[mods[j]]]]])
              /\ transformResult' = transformResult
              /\ gvars' = gvars]_vars

\* C10 witness: the set {B, A}, filled in that order, was pruned
C10_Witness ==
    /\ inv[1].op = "prune"
    /\ inv[1].pc = "done"
    /\ inv[1].mods = <<"B", "A">>
    /\ lastHMRTimestamp = [n \in Nodes |-> IF n = "C" THEN 0 ELSE 2]
    /\ MsgsBy(1) = <<[type |-> "prune", paths |-> <<"/a.vue?type=style", "/a.vue">>]>>

\* ---- the lexer (SpecLex) ----
Arg == call.arg

\* C6: a single string literal as first argument, in any quote style, followed
\* by the rest of the call: the lexer adds exactly the literal's text to urls
\* and returns false.
C6_AsClaimed ==
    (Arg.kind = "literal" /\ lexOut # "run") =>
      /\ lexOut = "false"
      /\ urls = call.urls \cup {Arg.lit.text}

\* the entries' texts of an array argument
TextsOf(es) == {es[j].text : j \in 1..Len(es)}

\* C7: an array of string literals, each entry in any quote style: the lexer
\* returns false and urls is exactly the set of the entries' texts.
C7_AsClaimed ==
    (Arg.kind = "array" /\ lexOut # "run") =>
      /\ lexOut = "false"
      /\ urls = call.urls \cup TextsOf(Arg.entries)

\* the offset of the first character at or after k that is not whitespace,
\* Len(code) if there is none
RECURSIVE FirstNonSpace(_)
FirstNonSpace(k) ==
    IF k >= Len(code) \/ ~IsSpace(charAt(k)) THEN k ELSE FirstNonSpace(k + 1)

\* C8: when the first non-whitespace character after the start offset is
\* neither a quote nor '[', the lexer returns true on reaching it and leaves
\* urls as it was passed in.
C8_SelfAccepting ==
    LET p == FirstNonSpace(start)
    IN (lexOut # "idle" /\ p < Len(code) /\ charAt(p) \notin Quotes \cup {"["}) =>
         /\ lexOut \in {"run", "true"}
         /\ lexOut = "run" => ENABLED NextLex
         /\ i <= p
         /\ lexOut = "true" => i = p
         /\ state = "inCall"
         /\ urls = call.urls

\* C8 witness: true was returned after whitespace was skipped, at a character
\* that is not ')' , with a non-empty set passed in
C8_Witness ==
    /\ lexOut = "true"
    /\ i = start + 2
    /\ charAt(i) = "a"
    /\ start > 0
    /\ urls = {<<"a">>}

\* the character at i is one the lexer throws on
Offending ==
    /\ Lexing
    /\ \/ state = "inTemplateString" /\ char = "$" /\ charAt(i + 1) = "{"
       \/ state = "inArray" /\ char \notin Quotes /\ ~IsSpace(char) /\ char \notin {",", "]"}

\* C9: the lexer throws the parse error, with pos the offset of the offending
\* character, exactly when it reads a '$' followed by '{' in the template
\* string state or a character other than a quote, whitespace, ',' or ']' in
\* the inArray state.
C9_ParseError ==
    [][/\ Offending => (lexOut' = "error" /\ errPos' = i)
       /\ (lexOut' = "error" /\ lexOut = "run") => Offending
       /\ lexOut = "error" => lexOut' = "error"]_vars

\* C9 witness: lexing started at offset 2; the second entry of an array is a
\* template string with an interpolation, and the error carries the offset of '$'
C9_Witness ==
    /\ lexOut = "error"
    /\ Arg.kind = "interpolated"
    /\ Len(Arg.entries) = 1
    /\ Arg.text = <<"a">>
    /\ start = 2
    /\ charAt(errPos) = "$"
    /\ charAt(errPos + 1) = "{"
    /\ errPos = start + 1 + Len(Literal(Arg.entries[1])) + 3

\* ------------------------------------------- the changed file's classification
\* handleHMRUpdate(file, server) called in slot k, up to its return or to its
\* first await
handleHMRUpdate(k, f) ==
    \/ HmrIgnored(k, f)
    \/ HmrFullReload(k, f)
    \/ HmrNoModule(k, f)
    \/ \E t \in Times : HmrModules(k, f, t)

IndexHtml == Path(RootDir, <<"i">>, HtmlSuffix)
ClientJs == Path(ClientDir, <<"c">>, Js)
ClientEnv == Path(ClientDir, <<>>, EnvSuffix)

\* the files of the graph's nodes: node C may be the module of an html file,
\* of a file of the client directory or of an .env file
FileMaps ==
    {[NodeFiles EXCEPT !["C"] = f] : f \in {FileC, IndexHtml, ClientJs, ClientEnv}}

MaxFileEdges == 1   \* importer edges in the graph the classification is run on

InitFiles ==
    /\ importers \in {f \in [Nodes -> ImporterLists] : SumLen(f, Nodes) <= MaxFileEdges}
    /\ acceptedHmrDeps \in
         {f \in [Nodes -> SUBSET Nodes] :
            \A a \in Nodes : \A b \in f[a] : Imports(importers, a, b)}
    /\ isSelfAccepting \in [Nodes -> BOOLEAN]
    /\ url = Urls
    /\ file \in FileMaps
    /\ type = Types
    /\ lastHMRTimestamp = [n \in Nodes |-> 0]
    /\ transformResult = [n \in Nodes |-> "cached"]
    /\ NoSelfImport
    /\ wnode = "none"
    /\ wstack = <<>>
    /\ boundaries = <<>>
    /\ ret = "none"
    /\ plugins \in PluginConfigs
    /\ inv = [k \in Slots |-> IdleCall]
    /\ sent = <<>>
    /\ now = 1
    /\ LexIdle

SpecFiles == InitFiles /\ [][Next]_vars

\* ---- the classification (SpecFiles) ----
\* the file lies under the client directory: in it or in a directory below it
UnderClientDir(f) == startsWith(f, ClientDir \o <<"/">>)
HtmlOrUnderClient(f) == endsWith(f, HtmlSuffix) \/ UnderClientDir(f)
ConfigOrEnv(f) == f = ConfigPath \/ endsWith(f, EnvSuffix)
InGraph(f) == \E n \in Nodes : file[n] = f

\* what every step that calls handleHMRUpdate(f) in slot k shows: the slot was
\* free and now holds a call, and a file recorded for the call is f
Called(k, f) ==
    /\ inv[k].pc = "idle"
    /\ inv'[k].op = "hmr"
    /\ "file" \in DOMAIN inv'[k] => inv'[k].file = f

\* the call in slot k returned from one of the checks that precede the plugin
\* loop, having sent msgs
ReturnedEarly(k, f, msgs) ==
    /\ inv'[k] = [op |-> "hmr", pc |-> "done", file |-> f]
    /\ sent' = sent \o [j \in 1..Len(msgs) |-> [by |-> k, msg |-> msgs[j]]]
    /\ UNCHANGED <<gvars, nvars>>

\* C11 as claimed: for every file that ends in .html or lies under the client
\* directory, the config path and .env files included, handleHMRUpdate sends
\* a full-reload and returns before the module graph is looked up.
C11_AsClaimed ==
    [][\A f \in HmrFiles :
         (HtmlOrUnderClient(f) /\ Called(1, f) /\ handleHMRUpdate(1, f)) =>
           ReturnedEarly(1, f, <<[type |-> "full-reload", path |-> RelativePath(f)]>>)]_vars

\* C11 (amended): for every file that ends in .html or lies under the client
\* directory and is neither the config path nor an .env file, whether it has
\* nodes in the graph or not, handleHMRUpdate sends one full-reload with the
\* file's root-relative path and returns before the module graph is looked
\* up; when such a file is the config path or ends in .env nothing is sent.
C11_HtmlOrClient ==
    /\ [](\A f \in HmrFiles :
            (inv[1].pc = "idle" /\ HtmlOrUnderClient(f) /\ ~ConfigOrEnv(f)) =>
              ENABLED HmrFullReload(1, f))
    /\ [][\A f \in HmrFiles :
            (HtmlOrUnderClient(f) /\ Called(1, f) /\ handleHMRUpdate(1, f)) =>
              IF ConfigOrEnv(f) THEN ReturnedEarly(1, f, <<>>)
              ELSE ReturnedEarly(1, f, <<[type |-> "full-reload",
                                          path |-> RelativePath(f)]>>)]_vars

\* C11 witness: a file of the client directory that has a node in the graph
\* changed; one full-reload with its path was sent and no node was stamped
C11_Witness ==
    /\ inv[1] = [op |-> "hmr", pc |-> "done", file |-> ClientJs]
    /\ InGraph(ClientJs)
    /\ MsgsBy(1) = <<[type |-> "full-reload",
                      path |-> <<"/", ".", ".">> \o ClientJs]>>
    /\ \A n \in Nodes : lastHMRTimestamp[n] = 0

\* ---- the plugin hooks (Spec) ----
\* C12: the batch is the reduction of the file's node set through the
\* handleHotUpdate hooks in registration order: the first hook gets the file's
\* node set, each later hook is called after the previous one resolved and
\* gets its output, a non-empty result replaces the set, and a result that is
\* absent or an empty list leaves the set unchanged.
C12_AsClaimed ==
    [][\A k \in Slots :
         /\ (inv[k].pc = "idle" /\ inv'[k].op = "hmr" /\ inv'[k].pc = "await") =>
              /\ inv'[k].filteredMods = getModulesByFile(inv'[k].file)
              /\ inv'[k].plugin = NextHook(1)
         /\ (inv[k].pc = "await" /\ inv'[k] # inv[k]) =>
              \E r \in HookResults :
                /\ \E t \in Times : HmrHookResult(k, r, t)
                /\ inv'[k].filteredMods =
                     IF r.truthy /\ r.mods # <<>> THEN r.mods ELSE inv[k].filteredMods
                /\ inv'[k].pc = "await" => inv'[k].plugin = NextHook(inv[k].plugin + 1)]_vars

\* ---- the update message (Spec) ----
\* the record the claim describes for one boundary pair
ClaimedRecord(b, t) ==
    [type |-> UpdateType(type[b.boundary]),
     timestamp |-> t,
     path |-> url[b.boundary],
     acceptedPath |-> url[b.acceptedVia]]

\* the claimed records of the walks of mods[k], mods[k + 1], ...: batch order,
\* within a node the order the boundaries were recorded in, nothing dropped
RECURSIVE ClaimedUpdates(_, _, _)
ClaimedUpdates(mods, k, t) ==
    IF k > Len(mods) THEN <<>>
    ELSE LET bs == propagateUpdate(mods[k], <<mods[k]>>, NoWalk).boundaries
         IN [j \in 1..Len(bs) |-> ClaimedRecord(bs[j], t)] \o ClaimedUpdates(mods, k + 1, t)

\* C13: when no node of the batch hits a dead end, handleHMRUpdate sends
\* exactly one update message; its updates list has one record per recorded
\* boundary pair, in batch order and within a node in discovery order, pairs
\* with the same boundary and different acceptedVia both kept; each record has
\* type = boundary.type + '-update', timestamp, path = boundary.url and
\* acceptedPath = acceptedVia.url, all with the same timestamp.
C13_AsClaimed ==
    \A k \in Slots :
      (Walked(k) /\ \A j \in 1..Len(inv[k].filteredMods) : ~DeadEnd(inv[k].filteredMods[j]))
        => \E t \in Times :
             MsgsBy(k) = <<[type |-> "update",
                            updates |-> ClaimedUpdates(inv[k].filteredMods, 1, t)]>>

\* ------------------------------------------------ calls dispatched concurrently
\* the module graph component, between two steps of the handlers: a module's
\* source now has a hot.accept() call of its own
GraphChange(n) ==
    /\ \E k \in Slots : inv[k].pc = "await"
    /\ ~isSelfAccepting[n]
    /\ isSelfAccepting' = [isSelfAccepting EXCEPT ![n] = TRUE]
    /\ UNCHANGED <<importers, acceptedHmrDeps, url, file, type, nvars, wvars, svars,
                   now, lvars>>

InitConcurrent ==
    /\ importers \in {f \in [Nodes -> ImporterLists] : SumLen(f, Nodes) <= MaxFileEdges}
    /\ acceptedHmrDeps \in
         {f \in [Nodes -> SUBSET Nodes] :
            \A a \in Nodes : \A b \in f[a] : Imports(importers, a, b)}
    /\ isSelfAccepting \in [Nodes -> BOOLEAN]
    /\ url = Urls
    /\ file = NodeFiles
    /\ type = Types
    /\ lastHMRTimestamp = [n \in Nodes |-> 0]
    /\ transformResult = [n \in Nodes |-> "cached"]
    /\ NoSelfImport
    /\ wnode = "none"
    /\ wstack = <<>>
    /\ boundaries = <<>>
    /\ ret = "none"
    /\ plugins \in PluginConfigs
    /\ inv = [k \in Slots |-> IdleCall]
    /\ sent = <<>>
    /\ now = 1
    /\ LexIdle

\* each slot serves one call; a call runs from one await to the next, or to
\* its return, without another call's code in between
NextConcurrent ==
    \/ \E k \in Slots, f \in {FileA, FileC}, t \in Times : HmrModules(k, f, t)
    \/ \E k \in Slots, r \in {h \in HookResults : Len(h.mods) <= 1}, t \in Times :
         HmrHookResult(k, r, t)
    \/ \E mods \in {s \in PrunedSets : Len(s) = 1}, t \in Times :
         handlePrunedModules(2, mods, t)
    \/ \E n \in Nodes : GraphChange(n)

SpecConcurrent == InitConcurrent /\ [][NextConcurrent]_vars

\* ---- concurrency (SpecConcurrent) ----
\* C14: calls of handleHMRUpdate interleave only at the awaits of the plugin
\* hooks: a suspended call has sent nothing; in the one step in which a call
\* reads the timestamp, walks and sends, the message is the one the walks
\* yield on the graph as it is in that step, every node the walks invalidate
\* holds the timestamp the records carry, no other node and no graph field is
\* written, and the other call does not move.
C14_Atomic ==
    /\ [](\A k \in Slots : inv[k].pc = "await" => MsgsBy(k) = <<>>)
    /\ [][\A k \in Slots :
            (inv[k].pc # "done" /\ inv'[k].op = "hmr" /\ inv'[k].pc = "done") =>
              LET r == WalkBatch(inv'[k].filteredMods, 1, now', NoBatch)
              IN /\ sent' = Append(sent, [by |-> k, msg |-> BatchMessage(r)])
                 /\ \A n \in Nodes :
                      IF n \in r.invalidated
                      THEN lastHMRTimestamp'[n] = now' /\ transformResult'[n] = "null"
                      ELSE /\ lastHMRTimestamp'[n] = lastHMRTimestamp[n]
                           /\ transformResult'[n] = transformResult[n]
                 /\ gvars' = gvars
                 /\ \A k2 \in Slots \ {k} : inv'[k2] = inv[k2]]_vars

\* C14 witness: call 1 was suspended at a hook while call 2 walked and sent an
\* update stamped 1; then call 1 went on and sent an update for the same
\* boundary stamped 2, and that boundary holds 2
C14_Witness ==
    /\ Len(sent) = 2
    /\ sent[1].by = 2 /\ sent[2].by = 1
    /\ sent[1].msg.type = "update" /\ sent[2].msg.type = "update"
    /\ Len(sent[1].msg.updates) = 1 /\ Len(sent[2].msg.updates) = 2
    /\ sent[1].msg.updates[1].timestamp = 1
    /\ sent[2].msg.updates[1].timestamp = 2
    /\ sent[1].msg.updates[1].path = "/a.vue"
    /\ sent[2].msg.updates[1].path = "/a.vue"
    /\ lastHMRTimestamp["A"] = 2

\* ---- invalidation (SpecWalk) ----
\* the chains a walk can be on: the start node, then importer after importer
Chains == OrderedSets(Cardinality(Nodes) + 1) \ {<<>>}

\* c leads from the start node of the walk to the boundary pair b
LeadsTo(c, b) ==
    /\ c[1] = wnode
    /\ \A j \in 1..(Len(c) - 1) : Imports(importers, c[j + 1], c[j])
    /\ c[Len(c)] = b.boundary
    /\ \/ b.acceptedVia = b.boundary /\ isSelfAccepting[b.boundary]
       \/ /\ Len(c) >= 2
          /\ c[Len(c) - 1] = b.acceptedVia
          /\ b.acceptedVia \in acceptedHmrDeps[b.boundary]

Stamped(n) == lastHMRTimestamp[n] = now /\ transformResult[n] = "null"
Untouched(n) == lastHMRTimestamp[n] = 0 /\ transformResult[n] = "cached"

\* C15: a boundary pair is recorded together with the invalidation of the
\* chain that led to it (start node, intermediate importers, and the accepting
\* importer of an accepted-dependency boundary), and nothing else is ever
\* written: after the walk returned, every recorded pair has a chain from the
\* start node whose nodes all hold the walk's timestamp and a cleared
\* transformResult, and every node the walk wrote lies on such a chain.
C15_ChainsStamped ==
    /\ [][LET c == IF isSelfAccepting[Top.node] THEN Top.chain ELSE SubChain
          IN IF boundaries' # boundaries
             THEN /\ Len(boundaries') = Len(boundaries) + 1
                  /\ SubSeq(boundaries', 1, Len(boundaries)) = boundaries
                  /\ LeadsTo(c, boundaries'[Len(boundaries')])
                  /\ \A n \in Nodes :
                       IF ChainIncludes(c, n)
                       THEN lastHMRTimestamp'[n] = now /\ transformResult'[n] = "null"
                       ELSE /\ lastHMRTimestamp'[n] = lastHMRTimestamp[n]
                            /\ transformResult'[n] = transformResult[n]
             ELSE nvars' = nvars]_vars
    /\ [](WalkDone =>
            /\ \A j \in 1..Len(boundaries) :
                 \E c \in Chains : LeadsTo(c, boundaries[j]) /\ \A n \in Range(c) : Stamped(n)
            /\ \A n \in Nodes :
                 \/ Untouched(n)
                 \/ /\ Stamped(n)
                    /\ \E j \in 1..Len(boundaries), c \in Chains :
                         /\ LeadsTo(c, boundaries[j])
                         /\ n \in Range(c)
                         /\ \A m \in Range(c) : Stamped(m))

\* C15 witness: the walk returned with a boundary that accepted a dependency
\* other than the start node, start node, dependency and boundary all stamped
C15_Witness ==
    /\ WalkDone
    /\ ret = "false"
    /\ \E j \in 1..Len(boundaries) :
         /\ boundaries[j].boundary # boundaries[j].acceptedVia
         /\ boundaries[j].acceptedVia # wnode
         /\ boundaries[j].boundary # wnode
    /\ \A n \in Nodes : Stamped(n)

\* ------------------------------------------------------- one call after another
\* slot 1 serves the first call, slot 2 the next one once the first returned
Turn(k) == k = 1 \/ inv[1].pc = "done"

NextCalls ==
    \/ \E k \in Slots, f \in HmrFiles : Turn(k) /\ handleHMRUpdate(k, f)
    \/ \E k \in Slots, r \in {h \in HookResults : Len(h.mods) <= 1}, t \in Times :
         Turn(k) /\ HmrHookResult(k, r, t)
    \/ \E k \in Slots, mods \in {s \in PrunedSets : Len(s) = 1}, t \in Times :
         Turn(k) /\ handlePrunedModules(k, mods, t)

SpecCalls == InitConcurrent /\ [][NextCalls]_vars

\* ---- the graph is only read (SpecCalls) ----
\* C16: no step of handleHMRUpdate or handlePrunedModules, in any sequence of
\* calls, adds or removes a node or writes a node's url, file, type,
\* isSelfAccepting, importers or acceptedHmrDeps: the only node fields written
\* are lastHMRTimestamp and transformResult.
C16_GraphFrame ==
    [][/\ DOMAIN lastHMRTimestamp' = Nodes
       /\ DOMAIN transformResult' = Nodes
       /\ importers' = importers
       /\ acceptedHmrDeps' = acceptedHmrDeps
       /\ isSelfAccepting' = isSelfAccepting
       /\ url' = url
       /\ file' = file
       /\ type' = type]_vars

\* C16 witness: an update call that walked and stamped a node with timestamp
\* 1, then a prune call of a node that is an importer, stamped 2
C16_Witness ==
    /\ Walked(1)
    /\ MsgsBy(1) # <<>> /\ MsgsBy(1)[1].type = "update" /\ MsgsBy(1)[1].updates # <<>>
    /\ inv[2].op = "prune" /\ inv[2].pc = "done"
    /\ \E n \in Nodes :
         /\ ChainIncludes(inv[2].mods, n)
         /\ \E m \in Nodes : Imports(importers, n, m)
         /\ lastHMRTimestamp[n] = 2
    /\ \E n \in Nodes : lastHMRTimestamp[n] = 1 /\ transformResult[n] = "null"

\* ---- files that are not handled (SpecFiles) ----
\* the file is the config path, an .env file, or a file that is neither html
\* nor under the client directory and has no node in the graph
NotHandled(f) == ConfigOrEnv(f) \/ (~HtmlOrUnderClient(f) /\ ~InGraph(f))

\* C17: when the changed file is the config path, ends in .env, or (being
\* neither html nor under the client directory) has no entry in the module
\* graph, handleHMRUpdate returns without sending a message, without calling
\* a plugin hook and without writing lastHMRTimestamp or transformResult.
C17_AsClaimed ==
    /\ [](\A f \in HmrFiles :
            (inv[1].pc = "idle" /\ NotHandled(f)) =>
              /\ ENABLED handleHMRUpdate(1, f)
              /\ ~ENABLED HmrFullReload(1, f)
              /\ ~ENABLED (\E t \in Times : HmrModules(1, f, t)))
    /\ [][\A f \in HmrFiles :
            (NotHandled(f) /\ Called(1, f) /\ handleHMRUpdate(1, f)) =>
              ReturnedEarly(1, f, <<>>)]_vars

\* ---- walks that end without a boundary (SpecWalk) ----
\* C18: whenever the walk started at a changed node returns false, at least
\* one boundary has been recorded for it; a walk on which nothing accepts (a
\* pure import cycle, say) returns true.
C18_AsClaimed ==
    (WalkDone /\ ret = "false") => boundaries # <<>>

\* C19: within one walk the same (boundary, acceptedVia) pair is recorded at
\* most once, also when the boundary is reached over several importer paths.
C19_AsClaimed ==
    \A j, k \in 1..Len(boundaries) : j # k => boundaries[j] # boundaries[k]

\* ---- the lexer's states (SpecLex) ----
StringStates == {"inSingleQuoteString", "inDoubleQuoteString", "inTemplateString"}

\* C20: the lexer goes from inCall to inArray only on a '[' that is the first
\* non-whitespace character after the start offset, so never after a string
\* literal was lexed in inCall; and in a string state the saved previous state
\* is inCall or inArray.
C20_AsClaimed ==
    /\ [][(state = "inCall" /\ state' = "inArray") =>
            (char = "[" /\ i = FirstNonSpace(start))]_vars
    /\ [](state \in StringStates => prevState \in {"inCall", "inArray"})

====
